---- MODULE Spec2Model ----
(***************************************************************************)
(* Kubespray Scale API (kubespray_scale_api.py): the job registry, the     *)
(* Ansible work queue with its single worker thread, the /add-node and     *)
(* /remove-node request handlers, and the inventory file with its lock and *)
(* backup discipline.  Every step is one atomic region of the code: a      *)
(* `with job_lock:` block, a queue operation, a file operation, or an      *)
(* external command.                                                       *)
(***************************************************************************)
EXTENDS Naturals, Sequences, FiniteSets, TLC

\* ------------------------------------------------------------------ bounds
\* Number of concurrently running Flask request-handler threads.
NumHandlers == 2
\* Total number of HTTP requests received in one behaviour.
MaxRequests == 2

\* ---------------------------------------------------------------- threads
\* The AnsibleWorker daemon thread (one, started at import time).
Worker == 0
Handlers == 1..NumHandlers
Threads == {Worker} \cup Handlers

\* ----------------------------------------------------------- request data
ControlPlaneHost == "master1"
ControlPlaneIp == "10.0.0.1"
InitialWorker == "w1"
InitialWorkerIp == "10.0.0.2"
Hostnames == {ControlPlaneHost, InitialWorker, "w2"}
AddIps == {"10.0.0.5"}
\* request.args.get('ip') of /remove-node: absent, or an address.
NoIp == "None"
RemoveIps == {NoIp}

AddRequests ==
  {[op |-> "add", hostname |-> h, ip |-> a, skip_k8s |-> FALSE] :
     h \in Hostnames, a \in AddIps}
RemoveRequests ==
  {[op |-> "remove", hostname |-> h, ip |-> a, skip_k8s |-> s] :
     h \in Hostnames, a \in RemoveIps, s \in BOOLEAN}
NoRequest == [op |-> "none", hostname |-> "", ip |-> NoIp, skip_k8s |-> FALSE]

\* ------------------------------------------------------------- JobStatus
PENDING == "pending"
QUEUED == "queued"
RUNNING == "running"
COMPLETED == "completed"
FAILED == "failed"
InProgress == {PENDING, QUEUED, RUNNING}
Terminal == {COMPLETED, FAILED}

\* job_id = f"{hostname}_{ip}"
AddJobId(hostname, ip) == hostname \o "_" \o ip
\* job_id = f"remove_{hostname}_{ip or 'unknown'}"
RemoveJobId(hostname, ip) ==
  "remove_" \o hostname \o "_" \o (IF ip = NoIp THEN "unknown" ELSE ip)

\* result['kubernetes']: {} before step 1, {'skipped': True}, or the dict
\* drain_and_delete_node returns.
K8sEmpty ==
  [kind |-> "empty", exists |-> FALSE, drained |-> FALSE, deleted |-> FALSE,
   error |-> "none"]
K8sSkipped == [K8sEmpty EXCEPT !.kind = "skipped"]
K8sResult(exists, drained, deleted, error) ==
  [kind |-> "result", exists |-> exists, drained |-> drained,
   deleted |-> deleted, error |-> error]

\* The result dict of remove_node before step 1, and the 'result' of a job
\* record that has no such key.
NoResult == [kubernetes |-> K8sEmpty, inventory |-> FALSE]

\* jobs[job_id] = {...} of add_node.  started_at / completed_at are TRUE
\* when the field holds a timestamp, FALSE when it is None or absent.
NewAddJob(hostname, ip) ==
  [hostname |-> hostname, ip |-> ip, operation |-> "add", status |-> QUEUED,
   started_at |-> FALSE, completed_at |-> FALSE,
   message |-> "Job queued for processing",
   ansible_returncode |-> "none", node_status |-> "none",
   result |-> NoResult]

\* jobs[job_id] = {...} of remove_node.
NewRemoveJob(hostname, ip) ==
  [hostname |-> hostname, ip |-> ip, operation |-> "remove", status |-> RUNNING,
   started_at |-> TRUE, completed_at |-> FALSE,
   message |-> "Removing node",
   ansible_returncode |-> "none", node_status |-> "none",
   result |-> NoResult]

\* ------------------------------------------------------ inventory document
\* hosts.yaml: all.hosts (hostname -> address), all.vars, and the groups
\* all.children.kube_control_plane / kube_node / etcd.  The file the service
\* starts with: one control-plane host and one worker, both etcd members.
InitialInventory ==
  [hosts |-> [n \in {ControlPlaneHost, InitialWorker} |->
                IF n = ControlPlaneHost THEN ControlPlaneIp ELSE InitialWorkerIp],
   vars_shell |-> FALSE,
   kube_control_plane |-> {ControlPlaneHost},
   kube_node |-> {InitialWorker},
   etcd |-> {ControlPlaneHost, InitialWorker}]

\* update_inventory as it would be if it rebuilt the kube_node group around
\* the new host instead of adding to it.
UpdatedInventoryGroupRebuilt(inventory, hostname, ip) ==
  [inventory EXCEPT
     !.vars_shell = TRUE,
     !.hosts = [n \in DOMAIN inventory.hosts \cup {hostname} |->
                  IF n = hostname THEN ip ELSE inventory.hosts[n]],
     !.kube_node = {hostname}]

\* The document update_inventory dumps: the host entry inserted or
\* overwritten, the host put into kube_node, all.vars set.
UpdatedInventory(inventory, hostname, ip) ==
  [inventory EXCEPT
     !.vars_shell = TRUE,
     !.hosts = [n \in DOMAIN inventory.hosts \cup {hostname} |->
                  IF n = hostname THEN ip ELSE inventory.hosts[n]],
     !.kube_node = @ \cup {hostname}]

\* remove_from_inventory without its master-node safety check.
RemovalRefusedUnknownOnly(inventory, hostname) ==
  hostname \notin DOMAIN inventory.hosts

\* The two early returns of remove_from_inventory.
RemovalRefused(inventory, hostname) ==
  \/ hostname \notin DOMAIN inventory.hosts
  \/ hostname \in inventory.kube_control_plane

\* The document remove_from_inventory dumps.
RemovedInventory(inventory, hostname) ==
  [inventory EXCEPT
     !.hosts = [n \in DOMAIN inventory.hosts \ {hostname} |-> inventory.hosts[n]],
     !.kube_node = @ \ {hostname}]

\* What backup_inventory left for the thread inside its critical section.
NoBackup == [attempted |-> FALSE, ok |-> FALSE, content |-> InitialInventory]

\* -------------------------------------------------- external collaborators
\* subprocess.run of ansible-playbook: exit code 0, exit code non-zero,
\* TimeoutExpired, any other exception.
ProvisionerOutcomes == {"rc0", "rc1", "timeout", "error"}
\* check_node_status: Ready, present but not Ready, not found, exception
\* (caught inside check_node_status, which then returns a dict as well).
ReadinessOutcomes == {"ready", "not_ready", "not_found", "error"}
\* subprocess.run of kubectl in drain_and_delete_node: exit code 0, exit code
\* non-zero, TimeoutExpired, any other exception.
KubectlOutcomes == {"rc0", "rc1", "timeout", "error"}

VARIABLES
  jobs,            \* the jobs dict: job_id -> record
  ansible_queue,   \* the Queue: sequence of (job_id, hostname, ip) entries
  inventory_lock,  \* set of threads holding inventory_lock
  inventory_file,  \* the document in INVENTORY_FILE
  file_state,      \* "complete", or "truncated" between open('w') and dump
  backup,          \* each thread's backup attempt in its critical section
  wpc,             \* the worker's position
  wjob,            \* the worker's job_data
  wresult,         \* the worker's subprocess outcome
  running,         \* tickets of the ansible-playbook subprocesses alive
  hpc,             \* each handler's position
  hreq,            \* each handler's request
  hlocal,          \* each handler's result dict (kubernetes, inventory)
  drained,         \* each handler's `drained` in drain_and_delete_node
  loaded,          \* each thread's `inventory` local, as it will be dumped
  pushed,          \* number of ansible_queue.put calls so far
  taken,           \* number of ansible_queue.get returns so far
  served,          \* number of ansible_queue.task_done calls so far
  nreq,            \* number of requests received so far
  faults,          \* whether the environment may fail (I/O, Provisioner)
  lk_pc,           \* lock view: the statement each thread is at
  lk_held          \* lock view: the locks each thread holds

progvars == <<jobs, ansible_queue, inventory_lock, inventory_file, file_state,
              backup, wpc, wjob, wresult, running, hpc, hreq, hlocal, loaded,
              pushed, taken, served, nreq, faults, drained>>
lockvars == <<lk_pc, lk_held>>
vars == <<progvars, lockvars>>

NoEntry == [job_id |-> "", hostname |-> "", ip |-> NoIp, ticket |-> 0]

InitCommon ==
  /\ jobs = [k \in {} |-> NewAddJob("", "")]
  /\ ansible_queue = <<>>
  /\ inventory_lock = {}
  /\ inventory_file = InitialInventory
  /\ file_state = "complete"
  /\ backup = [t \in Threads |-> NoBackup]
  /\ wpc = "get"
  /\ wjob = NoEntry
  /\ wresult = "none"
  /\ running = {}
  /\ hpc = [h \in Handlers |-> "idle"]
  /\ hreq = [h \in Handlers |-> NoRequest]
  /\ hlocal = [h \in Handlers |-> NoResult]
  /\ drained = [h \in Handlers |-> FALSE]
  /\ loaded = [t \in Threads |-> InitialInventory]
  /\ pushed = 0
  /\ taken = 0
  /\ served = 0
  /\ nreq = 0
  /\ lk_pc = [t \in Threads |-> IF t = Worker THEN "L280" ELSE "idle"]
  /\ lk_held = [t \in Threads |-> {}]

Init == InitCommon /\ faults = TRUE

\* Outcomes the environment can produce.
IoOutcomes == IF faults THEN BOOLEAN ELSE {TRUE}
ProvOutcomes == IF faults THEN ProvisionerOutcomes ELSE {"rc0"}

\* jobs[job_id][field] = value ... under job_lock.
SetJob(job_id, fields) ==
  jobs' = [jobs EXCEPT ![job_id] =
             [f \in DOMAIN jobs[job_id] |->
                IF f \in DOMAIN fields THEN fields[f] ELSE jobs[job_id][f]]]

\* jobs[job_id] = record ... under job_lock.
PutJob(job_id, record) ==
  jobs' = [k \in DOMAIN jobs \cup {job_id} |->
             IF k = job_id THEN record ELSE jobs[k]]

\* ------------------------------------------------------------ primitives
\* A LifoQueue in place of the Queue.
EnqueueFront(queue, item) == <<item>> \o queue

\* ansible_queue.put(item): queue.Queue is FIFO, the item joins the tail.
Enqueue(queue, item) == Append(queue, item)

\* The inventory functions without `with inventory_lock:`.
LockIgnored == TRUE

\* `with inventory_lock:` may be entered.
LockFree == inventory_lock = {}

\* backup_inventory(): copies the file's content; any exception is caught
\* and None returned, and the caller goes on.
BackupOf(ok) ==
  [attempted |-> TRUE, ok |-> ok,
   content |-> IF ok THEN inventory_file ELSE InitialInventory]

\* ------------------------------------------------------------ the worker
\* job_data = ansible_queue.get(); job_id, hostname, ip = job_data
Dequeue ==
  /\ wpc = "get"
  /\ ansible_queue # <<>>
  /\ wjob' = Head(ansible_queue)
  /\ ansible_queue' = Tail(ansible_queue)
  /\ taken' = taken + 1
  /\ wpc' = "mark"
  /\ UNCHANGED <<jobs, inventory_lock, inventory_file, file_state, backup,
                 wresult, running, hpc, hreq, hlocal, loaded, pushed, served,
                 nreq, faults, drained, lockvars>>

\* with job_lock: if job_id in jobs: status = RUNNING; message = ...
MarkRunning ==
  /\ wpc = "mark"
  /\ IF wjob.job_id \in DOMAIN jobs
       THEN SetJob(wjob.job_id,
                   [status |-> RUNNING,
                    message |-> "Updating inventory and running Ansible playbook"])
       ELSE UNCHANGED jobs
  /\ wpc' = "start"
  /\ UNCHANGED <<ansible_queue, inventory_lock, inventory_file, file_state,
                 backup, wjob, wresult, running, hpc, hreq, hlocal, loaded,
                 pushed, taken, served, nreq, faults, drained, lockvars>>

\* run_ansible_playbook, first block: status = RUNNING; started_at = now
StartJob ==
  /\ wpc = "start"
  /\ SetJob(wjob.job_id,
            [status |-> RUNNING, started_at |-> TRUE,
             message |-> "Updating inventory"])
  /\ wpc' = "update"
  /\ UNCHANGED <<ansible_queue, inventory_lock, inventory_file, file_state,
                 backup, wjob, wresult, running, hpc, hreq, hlocal, loaded,
                 pushed, taken, served, nreq, faults, drained, lockvars>>

\* update_inventory up to the open(INVENTORY_FILE, 'w'): take the lock, back
\* up, load and change the document in memory.  A load that raises (the
\* file unreadable) leaves the `with` block and returns False.
UpdateInventoryEnter(backup_ok, load_ok) ==
  /\ wpc = "update"
  /\ LockFree
  /\ IF load_ok
       THEN /\ inventory_lock' = inventory_lock \cup {Worker}
            /\ backup' = [backup EXCEPT ![Worker] = BackupOf(backup_ok)]
            /\ loaded' = [loaded EXCEPT ![Worker] =
                            UpdatedInventory(inventory_file, wjob.hostname, wjob.ip)]
            /\ wpc' = "truncate"
       ELSE /\ UNCHANGED <<inventory_lock, backup, loaded>>
            /\ wpc' = "update_failed"
  /\ UNCHANGED <<jobs, ansible_queue, inventory_file, file_state, wjob,
                 wresult, running, hpc, hreq, hlocal, pushed, taken, served,
                 nreq, faults, drained, lockvars>>

\* open(INVENTORY_FILE, 'w'): the file is truncated.
UpdateInventoryTruncate ==
  /\ wpc = "truncate"
  /\ file_state' = "truncated"
  /\ wpc' = "dump"
  /\ UNCHANGED <<jobs, ansible_queue, inventory_lock, inventory_file, backup,
                 wjob, wresult, running, hpc, hreq, hlocal, loaded, pushed,
                 taken, served, nreq, faults, drained, lockvars>>

\* yaml.dump(inventory, f), the file closed, the lock released, return True.
UpdateInventoryDump ==
  /\ wpc = "dump"
  /\ inventory_file' = loaded[Worker]
  /\ file_state' = "complete"
  /\ inventory_lock' = inventory_lock \ {Worker}
  /\ backup' = [backup EXCEPT ![Worker] = NoBackup]
  /\ loaded' = [loaded EXCEPT ![Worker] = InitialInventory]
  /\ wpc' = "settle"
  /\ UNCHANGED <<jobs, ansible_queue, wjob, wresult, running, hpc, hreq,
                 hlocal, pushed, taken, served, nreq, faults, drained, lockvars>>

\* run_ansible_playbook going on to the playbook after a failed
\* update_inventory.
UpdateInventoryFailedProceeds ==
  /\ wpc = "update_failed"
  /\ wpc' = "settle"
  /\ UNCHANGED <<jobs, ansible_queue, inventory_lock, inventory_file,
                 file_state, backup, wjob, wresult, running, hpc, hreq,
                 hlocal, loaded, pushed, taken, served, nreq, faults, drained, lockvars>>

\* The inventory failure path returning without touching the job record.
UpdateInventoryFailedSilently ==
  /\ wpc = "update_failed"
  /\ served' = served + 1
  /\ wpc' = "get"
  /\ UNCHANGED <<jobs, ansible_queue, inventory_lock, inventory_file,
                 file_state, backup, wjob, wresult, running, hpc, hreq,
                 hlocal, loaded, pushed, taken, nreq, faults, drained, lockvars>>

\* if not update_inventory(...): status = FAILED; completed_at = now; return
\* and the worker's finally: ansible_queue.task_done()
UpdateInventoryFailed ==
  /\ wpc = "update_failed"
  /\ SetJob(wjob.job_id,
            [status |-> FAILED, message |-> "Failed to update inventory file",
             completed_at |-> TRUE])
  /\ served' = served + 1
  /\ wpc' = "get"
  /\ UNCHANGED <<ansible_queue, inventory_lock, inventory_file, file_state,
                 backup, wjob, wresult, running, hpc, hreq, hlocal, loaded,
                 pushed, taken, nreq, faults, drained, lockvars>>

\* The playbook started in a thread of its own, the worker going on to
\* task_done() and the next get().
ProvisionerStartDetached ==
  /\ wpc = "settle"
  /\ SetJob(wjob.job_id, [message |-> "Running Ansible playbook"])
  /\ running' = running \cup {wjob.ticket}
  /\ served' = served + 1
  /\ wpc' = "get"
  /\ UNCHANGED <<ansible_queue, inventory_lock, inventory_file, file_state,
                 backup, wjob, wresult, hpc, hreq, hlocal, loaded, pushed,
                 taken, nreq, faults, drained, lockvars>>

\* time.sleep(30); message = 'Running Ansible playbook'; subprocess.run(cmd)
\* starts ansible-playbook -i INVENTORY_FILE, which reads the inventory file.
ProvisionerStart ==
  /\ wpc = "settle"
  /\ SetJob(wjob.job_id, [message |-> "Running Ansible playbook"])
  /\ running' = running \cup {wjob.ticket}
  /\ wpc' = "playbook"
  /\ UNCHANGED <<ansible_queue, inventory_lock, inventory_file, file_state,
                 backup, wjob, wresult, hpc, hreq, hlocal, loaded, pushed,
                 taken, served, nreq, faults, drained, lockvars>>

\* subprocess.run returns or raises; on a return the output and the return
\* code are stored in the job record.
ProvisionerReturn(outcome) ==
  /\ wpc = "playbook"
  /\ running' = running \ {wjob.ticket}
  /\ wresult' = outcome
  /\ IF outcome \in {"rc0", "rc1"}
       THEN SetJob(wjob.job_id, [ansible_returncode |-> outcome])
       ELSE UNCHANGED jobs
  /\ wpc' = IF outcome = "rc0" THEN "verify" ELSE "failed"
  /\ UNCHANGED <<ansible_queue, inventory_lock, inventory_file, file_state,
                 backup, wjob, hpc, hreq, hlocal, loaded, pushed, taken,
                 served, nreq, faults, drained, lockvars>>

\* run_ansible_playbook with the readiness poll as a gate: COMPLETED only
\* for a Ready node.
ProvisionerSucceededIfReady(node_status) ==
  /\ wpc = "verify"
  /\ SetJob(wjob.job_id,
            [status |-> IF node_status = "ready" THEN COMPLETED ELSE FAILED,
             node_status |-> node_status,
             message |-> "Worker node has successfully joined the cluster",
             completed_at |-> TRUE])
  /\ wresult' = "none"
  /\ served' = served + 1
  /\ wpc' = "get"
  /\ UNCHANGED <<ansible_queue, inventory_lock, inventory_file, file_state,
                 backup, wjob, running, hpc, hreq, hlocal, loaded, pushed,
                 taken, nreq, faults, drained, lockvars>>

\* returncode == 0: sleep(10); node_status = check_node_status(hostname);
\* status = COMPLETED; completed_at = now; then task_done().
ProvisionerSucceeded(node_status) ==
  /\ wpc = "verify"
  /\ SetJob(wjob.job_id,
            [status |-> COMPLETED, node_status |-> node_status,
             message |-> "Worker node has successfully joined the cluster",
             completed_at |-> TRUE])
  /\ wresult' = "none"
  /\ served' = served + 1
  /\ wpc' = "get"
  /\ UNCHANGED <<ansible_queue, inventory_lock, inventory_file, file_state,
                 backup, wjob, running, hpc, hreq, hlocal, loaded, pushed,
                 taken, nreq, faults, drained, lockvars>>

\* run_ansible_playbook taking the host out of the inventory again when the
\* playbook has failed.
ProvisionerFailedRollback ==
  /\ wpc = "failed"
  /\ SetJob(wjob.job_id,
            [status |-> FAILED, message |-> "Ansible playbook failed",
             completed_at |-> TRUE])
  /\ inventory_file' =
       IF wjob.hostname \in DOMAIN inventory_file.hosts
         THEN RemovedInventory(inventory_file, wjob.hostname)
         ELSE inventory_file
  /\ wresult' = "none"
  /\ served' = served + 1
  /\ wpc' = "get"
  /\ UNCHANGED <<ansible_queue, inventory_lock, file_state,
                 backup, wjob, running, hpc, hreq, hlocal, loaded, pushed,
                 taken, nreq, faults, drained, lockvars>>

\* returncode != 0, TimeoutExpired, Exception: status = FAILED;
\* completed_at = now; then task_done().
ProvisionerFailed ==
  /\ wpc = "failed"
  /\ SetJob(wjob.job_id,
            [status |-> FAILED,
             message |-> CASE wresult = "rc1" -> "Ansible playbook failed"
                           [] wresult = "timeout" -> "Ansible playbook execution timed out"
                           [] OTHER -> "Error",
             completed_at |-> TRUE])
  /\ wresult' = "none"
  /\ served' = served + 1
  /\ wpc' = "get"
  /\ UNCHANGED <<ansible_queue, inventory_lock, inventory_file, file_state,
                 backup, wjob, running, hpc, hreq, hlocal, loaded, pushed,
                 taken, nreq, faults, drained, lockvars>>

\* The worker's `except Exception` around run_ansible_playbook is not an
\* action: run_ansible_playbook catches every exception of its try block,
\* and jobs[job_id] of its first block exists (records are never deleted).
ansible_worker ==
  \/ Dequeue
  \/ MarkRunning
  \/ StartJob
  \/ \E backup_ok \in IoOutcomes, load_ok \in IoOutcomes :
       UpdateInventoryEnter(backup_ok, load_ok)
  \/ UpdateInventoryTruncate
  \/ UpdateInventoryDump
  \/ UpdateInventoryFailed
  \/ ProvisionerStart
  \/ \E outcome \in ProvOutcomes : ProvisionerReturn(outcome)
  \/ \E node_status \in ReadinessOutcomes : ProvisionerSucceeded(node_status)
  \/ ProvisionerFailed

\* -------------------------------------------------- the request handlers
\* Flask dispatches a request to a free handler thread; the threads are
\* interchangeable, so the lowest-numbered free one takes it.
Dispatch(h) ==
  /\ hpc[h] = "idle"
  /\ \A g \in Handlers : g < h => hpc[g] # "idle"
  /\ nreq < MaxRequests
  /\ nreq' = nreq + 1

\* add_node answering 409 for every key that has a record.
AddRejectedIfKnown(job_id) == job_id \in DOMAIN jobs

\* if job_id in jobs and jobs[job_id]['status'] in [PENDING, QUEUED, RUNNING]
AddRejected(job_id) ==
  job_id \in DOMAIN jobs /\ jobs[job_id].status \in InProgress

\* add_node, first `with job_lock:` block: the duplicate check, 409 if the
\* job exists and is pending, queued or running.
AddCheck(h, request) ==
  /\ Dispatch(h)
  /\ LET job_id == AddJobId(request.hostname, request.ip) IN
       IF AddRejected(job_id)
         THEN UNCHANGED <<hpc, hreq>>
         ELSE /\ hpc' = [hpc EXCEPT ![h] = "create"]
              /\ hreq' = [hreq EXCEPT ![h] = request]
  /\ UNCHANGED <<jobs, ansible_queue, inventory_lock, inventory_file,
                 file_state, backup, wpc, wjob, wresult, running, hlocal,
                 loaded, pushed, taken, served, faults, drained, lockvars>>

\* add_node going to the queue push without having written the record.
AddCreateSkipped(h) ==
  /\ hpc[h] = "create"
  /\ hpc' = [hpc EXCEPT ![h] = "put"]
  /\ UNCHANGED <<jobs, ansible_queue, inventory_lock, inventory_file,
                 file_state, backup, wpc, wjob, wresult, running, hreq,
                 hlocal, loaded, pushed, taken, served, nreq, faults, drained, lockvars>>

\* add_node, second `with job_lock:` block: jobs[job_id] = {... QUEUED ...}
AddCreate(h) ==
  /\ hpc[h] = "create"
  /\ PutJob(AddJobId(hreq[h].hostname, hreq[h].ip),
            NewAddJob(hreq[h].hostname, hreq[h].ip))
  /\ hpc' = [hpc EXCEPT ![h] = "put"]
  /\ UNCHANGED <<ansible_queue, inventory_lock, inventory_file, file_state,
                 backup, wpc, wjob, wresult, running, hreq, hlocal, loaded,
                 pushed, taken, served, nreq, faults, drained, lockvars>>

\* ansible_queue.put((job_id, hostname, ip)); the 202 response.
AddPut(h) ==
  /\ hpc[h] = "put"
  /\ ansible_queue' =
       Enqueue(ansible_queue,
               [job_id |-> AddJobId(hreq[h].hostname, hreq[h].ip),
                hostname |-> hreq[h].hostname, ip |-> hreq[h].ip,
                ticket |-> pushed + 1])
  /\ pushed' = pushed + 1
  /\ hpc' = [hpc EXCEPT ![h] = "idle"]
  /\ hreq' = [hreq EXCEPT ![h] = NoRequest]
  /\ UNCHANGED <<jobs, inventory_lock, inventory_file, file_state, backup,
                 wpc, wjob, wresult, running, hlocal, loaded, taken, served,
                 nreq, faults, drained, lockvars>>

\* remove_node: jobs[job_id] = {... RUNNING ...}; result = {...}; with
\* skip_k8s, result['kubernetes'] = {'skipped': True}.
RemoveRegister(h, request) ==
  /\ Dispatch(h)
  /\ PutJob(RemoveJobId(request.hostname, request.ip),
            NewRemoveJob(request.hostname, request.ip))
  /\ hreq' = [hreq EXCEPT ![h] = request]
  /\ hlocal' = [hlocal EXCEPT ![h] =
                  [kubernetes |-> IF request.skip_k8s THEN K8sSkipped ELSE K8sEmpty,
                   inventory |-> FALSE]]
  /\ hpc' = [hpc EXCEPT ![h] = IF request.skip_k8s THEN "remove" ELSE "k8s"]
  /\ UNCHANGED <<ansible_queue, inventory_lock, inventory_file, file_state,
                 backup, wpc, wjob, wresult, running, loaded, pushed, taken,
                 served, faults, drained, lockvars>>

\* The two `except` clauses of drain_and_delete_node: whichever kubectl
\* command raised, the dict returned says exists, not drained, not deleted.
K8sRaised(outcome) ==
  K8sResult(TRUE, FALSE, FALSE, IF outcome = "timeout" THEN "Timeout" ELSE "Exception")

\* drain_and_delete_node: kubectl get node; a non-zero exit code returns
\* {'exists': False, ...}; result['kubernetes'] = k8s_result.
RemoveK8sGet(h, outcome) ==
  /\ hpc[h] = "k8s"
  /\ CASE outcome = "rc0" ->
            /\ hpc' = [hpc EXCEPT ![h] = "drain"]
            /\ UNCHANGED hlocal
       [] outcome = "rc1" ->
            /\ hpc' = [hpc EXCEPT ![h] = "remove"]
            /\ hlocal' = [hlocal EXCEPT ![h].kubernetes =
                            K8sResult(FALSE, FALSE, FALSE, "none")]
       [] OTHER ->
            /\ hpc' = [hpc EXCEPT ![h] = "remove"]
            /\ hlocal' = [hlocal EXCEPT ![h].kubernetes = K8sRaised(outcome)]
  /\ UNCHANGED <<jobs, ansible_queue, inventory_lock, inventory_file,
                 file_state, backup, wpc, wjob, wresult, running, hreq,
                 loaded, pushed, taken, served, nreq, faults, drained, lockvars>>

\* drain_and_delete_node: kubectl drain; drained = returncode == 0, and the
\* function goes on to the delete; an exception leaves the try block.
RemoveK8sDrain(h, outcome) ==
  /\ hpc[h] = "drain"
  /\ IF outcome \in {"rc0", "rc1"}
       THEN /\ drained' = [drained EXCEPT ![h] = (outcome = "rc0")]
            /\ hpc' = [hpc EXCEPT ![h] = "delete"]
            /\ UNCHANGED hlocal
       ELSE /\ hpc' = [hpc EXCEPT ![h] = "remove"]
            /\ hlocal' = [hlocal EXCEPT ![h].kubernetes = K8sRaised(outcome)]
            /\ UNCHANGED drained
  /\ UNCHANGED <<jobs, ansible_queue, inventory_lock, inventory_file,
                 file_state, backup, wpc, wjob, wresult, running, hreq,
                 loaded, pushed, taken, served, nreq, faults, lockvars>>

\* drain_and_delete_node: kubectl delete node; deleted = returncode == 0;
\* return {'exists': True, 'drained': drained, 'deleted': deleted, ...};
\* result['kubernetes'] = k8s_result.
RemoveK8sDelete(h, outcome) ==
  /\ hpc[h] = "delete"
  /\ hlocal' = [hlocal EXCEPT ![h].kubernetes =
                  IF outcome \in {"rc0", "rc1"}
                    THEN K8sResult(TRUE, drained[h], outcome = "rc0", "none")
                    ELSE K8sRaised(outcome)]
  /\ drained' = [drained EXCEPT ![h] = FALSE]
  /\ hpc' = [hpc EXCEPT ![h] = "remove"]
  /\ UNCHANGED <<jobs, ansible_queue, inventory_lock, inventory_file,
                 file_state, backup, wpc, wjob, wresult, running, hreq,
                 loaded, pushed, taken, served, nreq, faults, lockvars>>

\* k8s_result = drain_and_delete_node(hostname)
drain_and_delete_node(h) ==
  \/ \E outcome \in KubectlOutcomes : RemoveK8sGet(h, outcome)
  \/ \E outcome \in KubectlOutcomes : RemoveK8sDrain(h, outcome)
  \/ \E outcome \in KubectlOutcomes : RemoveK8sDelete(h, outcome)

\* remove_from_inventory up to the open(INVENTORY_FILE, 'w'): take the
\* lock, back up, load, return False for an unknown host or a control-plane
\* host (or when the load raises), else delete the host in memory.
RemoveInventoryEnter(h, backup_ok, load_ok) ==
  /\ hpc[h] = "remove"
  /\ LockFree
  /\ IF load_ok /\ ~RemovalRefused(inventory_file, hreq[h].hostname)
       THEN /\ inventory_lock' = inventory_lock \cup {h}
            /\ backup' = [backup EXCEPT ![h] = BackupOf(backup_ok)]
            /\ loaded' = [loaded EXCEPT ![h] =
                            RemovedInventory(inventory_file, hreq[h].hostname)]
            /\ hpc' = [hpc EXCEPT ![h] = "truncate"]
       ELSE /\ UNCHANGED <<inventory_lock, backup, loaded>>
            /\ hpc' = [hpc EXCEPT ![h] = "finish"]
  /\ UNCHANGED <<jobs, ansible_queue, inventory_file, file_state, wpc, wjob,
                 wresult, running, hreq, hlocal, pushed, taken, served, nreq,
                 faults, drained, lockvars>>

\* open(INVENTORY_FILE, 'w'): the file is truncated.
RemoveInventoryTruncate(h) ==
  /\ hpc[h] = "truncate"
  /\ file_state' = "truncated"
  /\ hpc' = [hpc EXCEPT ![h] = "dump"]
  /\ UNCHANGED <<jobs, ansible_queue, inventory_lock, inventory_file, backup,
                 wpc, wjob, wresult, running, hreq, hlocal, loaded, pushed,
                 taken, served, nreq, faults, drained, lockvars>>

\* yaml.dump(inventory, f), the file closed, the lock released, return True.
RemoveInventoryDump(h) ==
  /\ hpc[h] = "dump"
  /\ inventory_file' = loaded[h]
  /\ file_state' = "complete"
  /\ inventory_lock' = inventory_lock \ {h}
  /\ backup' = [backup EXCEPT ![h] = NoBackup]
  /\ loaded' = [loaded EXCEPT ![h] = InitialInventory]
  /\ hlocal' = [hlocal EXCEPT ![h].inventory = TRUE]
  /\ hpc' = [hpc EXCEPT ![h] = "finish"]
  /\ UNCHANGED <<jobs, ansible_queue, wpc, wjob, wresult, running, hreq,
                 pushed, taken, served, nreq, faults, drained, lockvars>>

\* remove_node marking the job COMPLETED only if the node was also deleted
\* from the cluster.
RemoveFinishStrict(h) ==
  /\ hpc[h] = "finish"
  /\ SetJob(RemoveJobId(hreq[h].hostname, hreq[h].ip),
            [status |-> IF hlocal[h].inventory /\ hlocal[h].kubernetes.deleted
                          THEN COMPLETED ELSE FAILED,
             message |-> "Removed",
             completed_at |-> TRUE,
             result |-> hlocal[h]])
  /\ hpc' = [hpc EXCEPT ![h] = "idle"]
  /\ hreq' = [hreq EXCEPT ![h] = NoRequest]
  /\ hlocal' = [hlocal EXCEPT ![h] = NoResult]
  /\ UNCHANGED <<ansible_queue, inventory_lock, inventory_file, file_state,
                 backup, wpc, wjob, wresult, running, loaded, pushed, taken,
                 served, nreq, faults, drained, lockvars>>

\* remove_node, last `with job_lock:` block: COMPLETED if inventory_removed
\* else FAILED; completed_at; result attached; the 200 / 500 response.
RemoveFinish(h) ==
  /\ hpc[h] = "finish"
  /\ SetJob(RemoveJobId(hreq[h].hostname, hreq[h].ip),
            [status |-> IF hlocal[h].inventory THEN COMPLETED ELSE FAILED,
             message |-> IF hlocal[h].inventory
                           THEN "Successfully removed node"
                           ELSE "Failed to remove node from inventory",
             completed_at |-> TRUE,
             result |-> hlocal[h]])
  /\ hpc' = [hpc EXCEPT ![h] = "idle"]
  /\ hreq' = [hreq EXCEPT ![h] = NoRequest]
  /\ hlocal' = [hlocal EXCEPT ![h] = NoResult]
  /\ UNCHANGED <<ansible_queue, inventory_lock, inventory_file, file_state,
                 backup, wpc, wjob, wresult, running, loaded, pushed, taken,
                 served, nreq, faults, drained, lockvars>>

add_node(h) ==
  \/ \E request \in AddRequests : AddCheck(h, request)
  \/ AddCreate(h)
  \/ AddPut(h)

remove_node(h) ==
  \/ \E request \in RemoveRequests : RemoveRegister(h, request)
  \/ drain_and_delete_node(h)
  \/ \E backup_ok \in IoOutcomes, load_ok \in IoOutcomes :
       RemoveInventoryEnter(h, backup_ok, load_ok)
  \/ RemoveInventoryTruncate(h)
  \/ RemoveInventoryDump(h)
  \/ RemoveFinish(h)

\* ------------------------------------------------------ the lock view
\* The same threads, seen at the grain of their lock operations: each node
\* is a statement of the source (named by its line), either the entry of a
\* `with <lock>:` block, its exit, or a call that can block (a collaborator,
\* a sleep, the queue, the file); `next` are the statements control can
\* reach from it.  threading.Lock is not reentrant.
Locks == {"job_lock", "inventory_lock", "queue_lock"}
Node(kind, what, next) == [kind |-> kind, what |-> what, next |-> next]

\* ansible_worker with run_ansible_playbook and update_inventory inlined.
WorkerProgram ==
  [L280 |-> Node("call", "queue.get", {"L288"}),
   L288 |-> Node("acquire", "job_lock", {"L291"}),
   L291 |-> Node("release", "job_lock", {"L320"}),
   L320 |-> Node("acquire", "job_lock", {"L323"}),
   L323 |-> Node("release", "job_lock", {"L217"}),
   L217 |-> Node("acquire", "inventory_lock", {"L220"}),
   L220 |-> Node("call", "file", {"L265"}),
   L265 |-> Node("release", "inventory_lock", {"L330", "L338"}),
   L330 |-> Node("acquire", "job_lock", {"L333"}),
   L333 |-> Node("release", "job_lock", {"L307"}),
   L338 |-> Node("call", "sleep", {"L340"}),
   L340 |-> Node("acquire", "job_lock", {"L341"}),
   L341 |-> Node("release", "job_lock", {"L362"}),
   L362 |-> Node("call", "Provisioner", {"L371", "L397", "L404"}),
   L371 |-> Node("acquire", "job_lock", {"L374"}),
   L374 |-> Node("release", "job_lock", {"L378", "L389"}),
   L378 |-> Node("call", "sleep", {"L379"}),
   L379 |-> Node("call", "readiness", {"L381"}),
   L381 |-> Node("acquire", "job_lock", {"L385"}),
   L385 |-> Node("release", "job_lock", {"L307"}),
   L389 |-> Node("acquire", "job_lock", {"L392"}),
   L392 |-> Node("release", "job_lock", {"L307"}),
   L397 |-> Node("acquire", "job_lock", {"L400"}),
   L400 |-> Node("release", "job_lock", {"L307"}),
   L404 |-> Node("acquire", "job_lock", {"L407"}),
   L407 |-> Node("release", "job_lock", {"L307"}),
   L307 |-> Node("call", "queue.task_done", {"L310"}),
   L310 |-> Node("acquire", "queue_lock", {"L312"}),
   L312 |-> Node("release", "queue_lock", {"L280"})]

\* add_node: 409 after the first block, or on to the put and the qsize.
AddProgram ==
  [L462 |-> Node("acquire", "job_lock", {"L468"}),
   L468 |-> Node("release", "job_lock", {"idle", "L471"}),
   L471 |-> Node("acquire", "job_lock", {"L480"}),
   L480 |-> Node("release", "job_lock", {"L484"}),
   L484 |-> Node("call", "queue.put", {"L486"}),
   L486 |-> Node("acquire", "queue_lock", {"L488"}),
   L488 |-> Node("release", "queue_lock", {"idle"})]

\* remove_node holding job_lock from its first block to its last.
RemoveProgramNested ==
  [L515 |-> Node("acquire", "job_lock", {"L536", "L111"}),
   L524 |-> Node("release", "job_lock", {"idle"}),
   L536 |-> Node("call", "ClusterController", {"L111"}),
   L111 |-> Node("acquire", "inventory_lock", {"L114"}),
   L114 |-> Node("call", "file", {"L150"}),
   L150 |-> Node("release", "inventory_lock", {"L560"}),
   L551 |-> Node("acquire", "job_lock", {"L560"}),
   L560 |-> Node("release", "job_lock", {"idle"})]

\* remove_node with drain_and_delete_node (unless skipped) and
\* remove_from_inventory inlined.
RemoveProgram ==
  [L515 |-> Node("acquire", "job_lock", {"L524"}),
   L524 |-> Node("release", "job_lock", {"L536", "L111"}),
   L536 |-> Node("call", "ClusterController", {"L111"}),
   L111 |-> Node("acquire", "inventory_lock", {"L114"}),
   L114 |-> Node("call", "file", {"L150"}),
   L150 |-> Node("release", "inventory_lock", {"L551"}),
   L551 |-> Node("acquire", "job_lock", {"L560"}),
   L560 |-> Node("release", "job_lock", {"idle"})]

\* get_status, list_jobs, queue_status.
ReadProgram ==
  [L593 |-> Node("acquire", "job_lock", {"L600"}),
   L600 |-> Node("release", "job_lock", {"idle"}),
   L631 |-> Node("acquire", "job_lock", {"L641"}),
   L641 |-> Node("release", "job_lock", {"idle"}),
   L686 |-> Node("acquire", "queue_lock", {"L687"}),
   L687 |-> Node("release", "queue_lock", {"L691"}),
   L691 |-> Node("acquire", "job_lock", {"L700"}),
   L700 |-> Node("release", "job_lock", {"idle"})]

\* A handler thread between requests: Flask calls one of the routes.
IdleProgram ==
  [idle |-> Node("idle", "", {"L462", "L515", "L593", "L631", "L686"})]

LockProgram ==
  WorkerProgram @@ AddProgram @@ RemoveProgram @@ ReadProgram @@ IdleProgram

LockNode(t) == LockProgram[lk_pc[t]]

LockGoto(t) == \E n \in LockNode(t).next : lk_pc' = [lk_pc EXCEPT ![t] = n]

\* `with lock:` entered: blocks while any thread (itself included) holds it.
LockAcquire(t) ==
  /\ LockNode(t).kind = "acquire"
  /\ \A u \in Threads : LockNode(t).what \notin lk_held[u]
  /\ lk_held' = [lk_held EXCEPT ![t] = @ \cup {LockNode(t).what}]
  /\ LockGoto(t)
  /\ UNCHANGED progvars

\* The `with` block left, by falling through, return or exception.
LockRelease(t) ==
  /\ LockNode(t).kind = "release"
  /\ lk_held' = [lk_held EXCEPT ![t] = @ \ {LockNode(t).what}]
  /\ LockGoto(t)
  /\ UNCHANGED progvars

\* A blocking call returns or raises.
LockCall(t) ==
  /\ LockNode(t).kind = "call"
  /\ LockGoto(t)
  /\ UNCHANGED <<progvars, lk_held>>

\* A request arrives at an idle handler thread.
LockDispatch(t) ==
  /\ LockNode(t).kind = "idle"
  /\ LockGoto(t)
  /\ UNCHANGED <<progvars, lk_held>>

\* ------------------------------------------------------- specifications
Next ==
  \/ ansible_worker
  \/ \E h \in Handlers : add_node(h)
  \/ \E h \in Handlers : remove_node(h)

Spec == Init /\ [][Next]_vars

\* Only /add-node requests arrive.
NextAdd ==
  \/ ansible_worker
  \/ \E h \in Handlers : add_node(h)

SpecAdd == Init /\ [][NextAdd]_vars

\* The lock view of the worker and the handlers.
NextLocks ==
  \/ \E t \in Threads : LockAcquire(t)
  \/ \E t \in Threads : LockRelease(t)
  \/ \E t \in Threads : LockCall(t)
  \/ \E t \in Threads : LockDispatch(t)

SpecLocks == Init /\ [][NextLocks]_vars

\* The threads run: every started handler and the worker keep taking their
\* steps (request arrival itself is not forced).  In FairSpec the
\* environment is either one that may fail or one that never does.
HandlerStep(h) ==
  \/ AddCreate(h)
  \/ AddPut(h)
  \/ drain_and_delete_node(h)
  \/ \E backup_ok \in IoOutcomes, load_ok \in IoOutcomes :
       RemoveInventoryEnter(h, backup_ok, load_ok)
  \/ RemoveInventoryTruncate(h)
  \/ RemoveInventoryDump(h)
  \/ RemoveFinish(h)

InitFair == InitCommon /\ faults \in BOOLEAN

FairSpec ==
  /\ InitFair
  /\ [][Next]_vars
  /\ WF_vars(ansible_worker)
  /\ \A h \in Handlers : WF_vars(HandlerStep(h))

\* ------------------------------------------------------------ vocabulary
pc(t) == IF t = Worker THEN wpc ELSE hpc[t]

WorkerBusy == wpc # "get"

\* Queue entries for a job id that are waiting or being processed.
EntriesFor(job_id) ==
  Cardinality({i \in 1..Len(ansible_queue) : ansible_queue[i].job_id = job_id})
    + (IF WorkerBusy /\ wjob.job_id = job_id THEN 1 ELSE 0)

AddJobIds == {AddJobId(r.hostname, r.ip) : r \in AddRequests}

StatusOf(job_id) == IF job_id \in DOMAIN jobs THEN jobs[job_id].status ELSE "absent"

\* The status after the step.
StatusAfter(job_id) == IF job_id \in DOMAIN jobs' THEN jobs'[job_id].status ELSE "absent"

\* Handler h takes the step of add_node that writes the job record.
CreatesRecord(h, job_id) ==
  /\ hpc[h] = "create" /\ hpc'[h] = "put"
  /\ AddJobId(hreq[h].hostname, hreq[h].ip) = job_id

\* Handler h takes the step of remove_node that writes the job record.
RegistersRecord(h, job_id) ==
  /\ hpc[h] = "idle" /\ hpc'[h] \in {"k8s", "remove"}
  /\ RemoveJobId(hreq'[h].hostname, hreq'[h].ip) = job_id

\* ------------------------------------------------------------------ C1
\* No add_node handler writes a record over one that is QUEUED or RUNNING.
C1_NoReplaceInProgress ==
  \A h \in Handlers : \A k \in AddJobIds :
    CreatesRecord(h, k) => StatusOf(k) \notin {QUEUED, RUNNING}

C1_AtMostOneEntryPerKey == \A k \in AddJobIds : EntriesFor(k) <= 1

\* C1: while the job under a key is QUEUED or RUNNING no submission for the
\* key replaces its record, and at most one queue entry per key is pending
\* or being processed.
C1_DuplicateRejected ==
  [](C1_AtMostOneEntryPerKey) /\ [][C1_NoReplaceInProgress]_vars

\* ------------------------------------------------------------------ C2
\* C2: at most one ansible-playbook run is in progress in any state, the
\* worker takes the next entry only when every entry it took before is
\* done, and an entry is done only with its job in a terminal state.
C2_ProvisionerSerial ==
  /\ [](Cardinality(running) <= 1)
  /\ [][/\ taken' # taken => served = taken
        /\ served' # served => StatusAfter(wjob.job_id) \in Terminal]_vars

\* A second job's playbook runs after the first job is done.
C2_Witness == running # {} /\ served >= 1

\* ------------------------------------------------------------------ C3
AllSettled ==
  /\ \A h \in Handlers : hpc[h] = "idle"
  /\ ansible_queue = <<>>
  /\ ~WorkerBusy
  /\ \A k \in DOMAIN jobs : jobs[k].status \in Terminal

InInventoryAsWorker(hostname, ip) ==
  /\ hostname \in DOMAIN inventory_file.hosts
  /\ inventory_file.hosts[hostname] = ip
  /\ hostname \in inventory_file.kube_node

InitialHostsKept == DOMAIN InitialInventory.hosts \subseteq DOMAIN inventory_file.hosts

NoInventoryFailure ==
  \A k \in DOMAIN jobs : jobs[k].message # "Failed to update inventory file"

RemovingControlPlane(h) ==
  /\ hreq[h].op = "remove"
  /\ hreq[h].hostname \in inventory_file.kube_control_plane

\* C4: a /remove-node for a control-plane member never reaches the write
\* of the inventory file nor reports the inventory removal as done, the
\* control-plane group stays as it was, and the request ends by setting
\* its job FAILED.
C4_ControlPlaneRemoveRefused ==
  /\ [](/\ inventory_file.kube_control_plane = InitialInventory.kube_control_plane
        /\ \A h \in Handlers :
             RemovingControlPlane(h) =>
               hpc[h] \notin {"truncate", "dump"} /\ ~hlocal[h].inventory)
  /\ [][\A h \in Handlers :
          RemovingControlPlane(h) /\ hpc[h] = "finish" /\ hpc'[h] = "idle"
            => /\ StatusAfter(RemoveJobId(hreq[h].hostname, hreq[h].ip)) = FAILED
               /\ inventory_file' = inventory_file]_vars

\* The removal of the control-plane host was refused and its job FAILED.
C4_Witness ==
  /\ StatusOf(RemoveJobId(ControlPlaneHost, NoIp)) = FAILED
  /\ \A h \in Handlers : hpc[h] = "idle"
  /\ ControlPlaneHost \in DOMAIN inventory_file.hosts

\* ------------------------------------------------------------------ C5
\* C5: a record in COMPLETED or FAILED keeps its status unless an accepted
\* submission replaces the record.
C5_NoTransitionOutOfTerminal ==
  [][\A k \in DOMAIN jobs :
       jobs[k].status \in Terminal /\ StatusAfter(k) # jobs[k].status
         => \E h \in Handlers : CreatesRecord(h, k) \/ RegistersRecord(h, k)]_vars

\* ------------------------------------------------------------------ C6
\* Threads inside an inventory mutation, a Provisioner run or a
\* ClusterController drain/delete.
Processing ==
  {t \in Threads :
     IF t = Worker
       THEN wpc \in {"truncate", "dump", "playbook"}
       ELSE hpc[t] \in {"k8s", "drain", "delete", "truncate", "dump"}}

\* C6: at most one job is inside such a step at a time, and never a
\* request handler.
C6_SingleWriter == Cardinality(Processing) <= 1 /\ Processing \subseteq {Worker}

\* ------------------------------------------------------------------ C7
\* C7: entries are taken in the order they were put (the n-th put is the
\* n-th taken), and the worker takes an entry, and sets its job RUNNING,
\* only after every earlier entry is done.
C7_Fifo ==
  /\ \A i \in 1..Len(ansible_queue) : ansible_queue[i].ticket = taken + i
  /\ pushed = taken + Len(ansible_queue)
  /\ WorkerBusy => wjob.ticket = taken /\ served + 1 = taken
  /\ ~WorkerBusy => served = taken

\* The second entry put is set RUNNING, the first one's job being terminal.
C7_Witness ==
  /\ wpc = "update" /\ wjob.ticket >= 2
  /\ StatusOf(wjob.job_id) = RUNNING
  /\ \E k \in DOMAIN jobs : k # wjob.job_id /\ jobs[k].status \in Terminal

\* ------------------------------------------------------------------ C8
\* C8: under fair scheduling every accepted ADD job that is QUEUED or
\* RUNNING reaches COMPLETED or FAILED, and in an environment without
\* failures every accepted ADD job reaches COMPLETED.
C8_AddsTerminate ==
  \A k \in AddJobIds :
    /\ (StatusOf(k) \in {QUEUED, RUNNING}) ~> (StatusOf(k) \in Terminal)
    /\ (~faults /\ StatusOf(k) # "absent") ~> (StatusOf(k) = COMPLETED)

\* Without failures, two ADD jobs for different hosts are both COMPLETED.
C8_Witness ==
  /\ ~faults
  /\ Cardinality({k \in AddJobIds : StatusOf(k) = COMPLETED}) >= 2

\* ------------------------------------------------------------------ C9
\* C9: while ansible-playbook runs (and reads the inventory file) the file
\* is never truncated and not yet rewritten.
C9_NoPartialRead == ~(running # {} /\ file_state = "truncated")

\* ------------------------------------------------------------------ C10
\* The thread truncates the inventory file in this step.
Truncates(t) == pc(t) = "truncate" /\ pc(t)' = "dump"

\* C10: a thread that truncates the inventory file holds inventory_lock
\* and attempted a backup in this critical section (none is left over from
\* an earlier one); a backup that succeeded holds the document as it is
\* just before the truncation; and after a failed backup the write is still
\* the thread's next step.
C10_BackupBeforeWrite ==
  /\ [][\A t \in Threads :
          Truncates(t) =>
            /\ t \in inventory_lock
            /\ backup[t].attempted
            /\ backup[t].ok => backup[t].content = inventory_file]_vars
  /\ [](\A t \in Threads :
          /\ t \notin inventory_lock => ~backup[t].attempted
          /\ t \in inventory_lock => backup[t].attempted /\ pc(t) \in {"truncate", "dump"})

\* The file is being written after a backup that failed.
C10_Witness ==
  /\ file_state = "truncated"
  /\ \E t \in inventory_lock : backup[t].attempted /\ ~backup[t].ok

\* ------------------------------------------------------------------ C11
\* Handler h takes the last step of remove_node.
FinishesRemove(h) == hpc[h] = "finish" /\ hpc'[h] = "idle"

\* Handler h returns from remove_from_inventory in this step.
LeavesInventoryRemoval(h) == hpc[h] \in {"remove", "dump"} /\ hpc'[h] = "finish"

\* C11: every /remove-node, whatever its cluster cleanup gave (skipped, node
\* missing, drain failed, delete failed, timeout), goes on to
\* remove_from_inventory and reaches its last step only from there; the
\* removal counts as done exactly when the file was rewritten; the last step
\* sets the job COMPLETED if it was done and FAILED if not, with a
\* completion time and with the cleanup result attached to the record.
C11_RemoveStatusFollowsInventory ==
  /\ [][\A h \in Handlers :
          /\ hpc[h] \in {"k8s", "drain", "delete"} /\ hpc'[h] # hpc[h]
               => hpc'[h] \in {"drain", "delete", "remove"}
          /\ hpc'[h] = "finish" /\ hpc[h] # "finish"
               => /\ LeavesInventoryRemoval(h)
                  /\ hlocal'[h].inventory <=> hpc[h] = "dump"
          /\ FinishesRemove(h)
               => LET k == RemoveJobId(hreq[h].hostname, hreq[h].ip) IN
                  /\ StatusAfter(k) = IF hlocal[h].inventory THEN COMPLETED ELSE FAILED
                  /\ jobs'[k].completed_at
                  /\ jobs'[k].result = hlocal[h]
                  /\ hlocal[h].kubernetes.kind # "empty"]_vars
  /\ [](\A k \in DOMAIN jobs :
          jobs[k].operation = "remove" /\ jobs[k].status \in Terminal
            => /\ jobs[k].status = COMPLETED <=> jobs[k].result.inventory
               /\ jobs[k].result.kubernetes.kind # "empty")

\* A removal is COMPLETED although the node exists in the cluster and its
\* delete failed, and another is FAILED although its cleanup was skipped.
C11_Witness ==
  /\ \E k \in DOMAIN jobs :
       /\ jobs[k].operation = "remove" /\ jobs[k].status = COMPLETED
       /\ jobs[k].result.kubernetes.exists /\ ~jobs[k].result.kubernetes.deleted
  /\ \E k \in DOMAIN jobs :
       /\ jobs[k].operation = "remove" /\ jobs[k].status = FAILED
       /\ jobs[k].result.kubernetes.kind = "skipped"

\* ------------------------------------------------------------------ C12
\* The key of the request handler h is serving.
AddKey(h) == AddJobId(hreq[h].hostname, hreq[h].ip)

\* Handler h takes the step of add_node that pushes the queue entry.
PushesEntry(h) == hpc[h] = "put" /\ hpc'[h] = "idle"

\* C12: a key whose record is COMPLETED or FAILED is not rejected by the
\* duplicate check; the record an accepted submission writes is fresh
\* (QUEUED, no start or completion time, no return code, no node status, no
\* result); and the submission pushes exactly one queue entry, for its key.
C12_ResubmitAfterTerminal ==
  /\ [](\A k \in AddJobIds : StatusOf(k) \in Terminal => ~AddRejected(k))
  /\ [][\A h \in Handlers :
          /\ CreatesRecord(h, AddKey(h))
               => /\ StatusAfter(AddKey(h)) = QUEUED
                  /\ ~jobs'[AddKey(h)].started_at
                  /\ ~jobs'[AddKey(h)].completed_at
                  /\ jobs'[AddKey(h)].ansible_returncode = "none"
                  /\ jobs'[AddKey(h)].node_status = "none"
                  /\ jobs'[AddKey(h)].result = NoResult
                  /\ jobs'[AddKey(h)].message = "Job queued for processing"
                  /\ ansible_queue' = ansible_queue
          /\ PushesEntry(h)
               => /\ Len(ansible_queue') = Len(ansible_queue) + 1
                  /\ pushed' = pushed + 1
                  /\ ansible_queue'[Len(ansible_queue')].job_id = AddKey(h)
                  /\ \A i \in 1..Len(ansible_queue) :
                       ansible_queue'[i] = ansible_queue[i]]_vars

\* The first handler's second request, for the key of the job the worker has
\* finished, was accepted and has replaced the terminal record.
C12_Witness ==
  /\ nreq = 2 /\ pushed = 1 /\ served = 1
  /\ hpc[1] = "put" /\ \A h \in Handlers : h # 1 => hpc[h] = "idle"
  /\ AddKey(1) = wjob.job_id
  /\ StatusOf(AddKey(1)) = QUEUED
  /\ ~jobs[AddKey(1)].completed_at

\* ------------------------------------------------------------------ C13
\* C13: every entry waiting in the queue, the entry the worker is
\* processing, and the entry a handler is about to push, has a job record
\* under its job id.
C13_RecordBeforeEntry ==
  /\ \A i \in 1..Len(ansible_queue) : ansible_queue[i].job_id \in DOMAIN jobs
  /\ WorkerBusy => wjob.job_id \in DOMAIN jobs
  /\ \A h \in Handlers : hpc[h] = "put" => AddKey(h) \in DOMAIN jobs

\* The worker processes one entry while another one waits.
C13_Witness ==
  /\ WorkerBusy /\ Len(ansible_queue) >= 1
  /\ ansible_queue[1].job_id # wjob.job_id

\* ------------------------------------------------------------------ C14
RemoveJobIds == {RemoveJobId(r.hostname, r.ip) : r \in RemoveRequests}

\* Handlers serving a /remove-node for the key.
RemovalsOf(job_id) ==
  {h \in Handlers :
     hreq[h].op = "remove" /\ RemoveJobId(hreq[h].hostname, hreq[h].ip) = job_id}

\* C14: no /remove-node writes its record over one that is QUEUED or
\* RUNNING, and at most one removal per key is in progress.
C14_RemoveDuplicateRejected ==
  /\ [](\A k \in RemoveJobIds : Cardinality(RemovalsOf(k)) <= 1)
  /\ [][\A h \in Handlers : \A k \in RemoveJobIds :
          RegistersRecord(h, k) => StatusOf(k) \notin {QUEUED, RUNNING}]_vars

\* ------------------------------------------------------------------ C15
\* C15: no handler is in kubectl drain or kubectl delete node for a
\* hostname of the kube_control_plane group.
C15_ControlPlaneNeverDrained ==
  \A h \in Handlers :
    hpc[h] \in {"drain", "delete"}
      => hreq[h].hostname \notin inventory_file.kube_control_plane

\* ------------------------------------------------------------------ C16
\* C16: ansible-playbook is started only by the worker at the end of its
\* settling delay, which it reaches only from the dump of update_inventory
\* that leaves the job's host, with its address, in hosts and kube_node of
\* the complete file; after a failed update_inventory the worker's next step
\* sets the job FAILED with a completion time, starts no playbook and takes
\* the worker back to the queue.
C16_ProvisionerAfterInsertion ==
  /\ [][/\ running' # running /\ running' # {}
             => wpc = "settle" /\ running' = running \cup {wjob.ticket}
        /\ wpc' = "settle" /\ wpc # "settle"
             => /\ wpc = "dump"
                /\ wjob' = wjob
                /\ file_state' = "complete"
                /\ wjob.hostname \in DOMAIN inventory_file'.hosts
                /\ inventory_file'.hosts[wjob.hostname] = wjob.ip
                /\ wjob.hostname \in inventory_file'.kube_node
        /\ wpc = "update_failed" /\ wpc' # wpc
             => /\ wpc' = "get"
                /\ StatusAfter(wjob.job_id) = FAILED
                /\ jobs'[wjob.job_id].completed_at
                /\ running' = running]_vars
  /\ [](\A t \in running : wpc = "playbook" /\ t = wjob.ticket)
  /\ [](wpc = "update_failed" => running = {})

\* A job has FAILED at the inventory update, no playbook having run for it.
C16_Witness ==
  /\ ~WorkerBusy /\ served >= 1
  /\ StatusOf(wjob.job_id) = FAILED
  /\ jobs[wjob.job_id].message = "Failed to update inventory file"
  /\ jobs[wjob.job_id].completed_at
  /\ jobs[wjob.job_id].ansible_returncode = "none"

\* ------------------------------------------------------------------ C17
\* C17: when subprocess.run of the playbook ends, the worker goes to the
\* success branch exactly for exit code 0; the success branch sets the job
\* COMPLETED whatever check_node_status gave, the other branch (non-zero
\* exit code, timeout, exception) sets it FAILED; both set completed_at.
C17_TerminalFollowsProvisioner ==
  [][/\ wpc = "playbook" /\ wpc' # wpc
         => /\ wresult' \in ProvisionerOutcomes
            /\ wpc' = IF wresult' = "rc0" THEN "verify" ELSE "failed"
     /\ wpc \in {"verify", "failed"} /\ wpc' # wpc
         => /\ wpc = "verify" <=> wresult = "rc0"
            /\ StatusAfter(wjob.job_id) = IF wresult = "rc0" THEN COMPLETED ELSE FAILED
            /\ jobs'[wjob.job_id].completed_at
            /\ wpc' = "get"]_vars

\* One job is COMPLETED with a readiness poll that found no Ready node, and
\* another is FAILED by a playbook that timed out.
C17_Witness ==
  /\ \E k \in DOMAIN jobs :
       /\ jobs[k].status = COMPLETED /\ jobs[k].completed_at
       /\ jobs[k].node_status \in {"not_ready", "not_found", "error"}
  /\ \E k \in DOMAIN jobs :
       /\ jobs[k].status = FAILED /\ jobs[k].completed_at
       /\ jobs[k].message = "Ansible playbook execution timed out"

\* ------------------------------------------------------------------ C18
\* C18: a handler that has started kubectl drain goes on to kubectl delete
\* node, whatever the drain's outcome.
C18_DeleteFollowsDrain ==
  [][\A h \in Handlers :
       hpc[h] = "drain" /\ hpc'[h] # "drain" => hpc'[h] = "delete"]_vars

\* ------------------------------------------------------------------ C19
\* C19: every group of the inventory document lists only hosts of the
\* document.
C19_GroupsWithinHosts ==
  /\ inventory_file.kube_control_plane \subseteq DOMAIN inventory_file.hosts
  /\ inventory_file.kube_node \subseteq DOMAIN inventory_file.hosts
  /\ inventory_file.etcd \subseteq DOMAIN inventory_file.hosts

\* ------------------------------------------------------------------ C20
\* Thread t waits for a lock that thread u holds.
WaitsFor(t, u) ==
  LockNode(t).kind = "acquire" /\ LockNode(t).what \in lk_held[u]

\* C20: a thread holding job_lock is neither at a lock acquisition nor in a
\* blocking call (Provisioner, ClusterController, readiness poll, sleep,
\* queue, file); a thread entering a lock holds none, so no thread holds two
\* locks; and a thread that another one waits for is itself not waiting, so
\* no set of threads is deadlocked.
C20_NoNestedLocks ==
  \A t \in Threads :
    /\ "job_lock" \in lk_held[t] => LockNode(t).kind = "release"
    /\ LockNode(t).kind = "acquire" => lk_held[t] = {}
    /\ Cardinality(lk_held[t]) <= 1
    /\ lk_held[t] \subseteq Locks
    /\ \A u \in Threads : WaitsFor(t, u) => \A v \in Threads : ~WaitsFor(u, v)

\* The worker holds inventory_lock in update_inventory while one handler
\* holds job_lock and another waits for it.
C20_Witness ==
  /\ lk_held[Worker] = {"inventory_lock"}
  /\ \E t, u \in Handlers : "job_lock" \in lk_held[u] /\ WaitsFor(t, u)

\* ------------------------------------------------------------------ C21
\* C21: in every state (each is one a reader holding job_lock can see) a
\* job that is RUNNING, COMPLETED or FAILED has a start time.
C21_RunningHasStart ==
  \A k \in DOMAIN jobs :
    jobs[k].status \in {RUNNING, COMPLETED, FAILED} => jobs[k].started_at

\* ------------------------------------------------------------------ C22
\* The messages of the three Provisioner failure branches.
ProvisionerFailureMessages ==
  {"Ansible playbook failed", "Ansible playbook execution timed out", "Error"}

\* The host leaves all.hosts or kube_node in this step.
HostDropped(n) ==
  \/ n \in DOMAIN inventory_file.hosts /\ n \notin DOMAIN inventory_file'.hosts
  \/ n \in inventory_file.kube_node /\ n \notin inventory_file'.kube_node

\* C22: the worker's steps from the end of the playbook to the FAILED
\* record leave the inventory file as it is, and the only step that takes
\* a host out of all.hosts or kube_node is the dump of a /remove-node for
\* that host.
C22_NoRollback ==
  [][/\ wpc \in {"playbook", "failed"} /\ wpc' # wpc
         => inventory_file' = inventory_file /\ file_state' = file_state
     /\ wpc = "failed" /\ wpc' # wpc
         => /\ StatusAfter(wjob.job_id) = FAILED
            /\ jobs'[wjob.job_id].message \in ProvisionerFailureMessages
     /\ \A n \in Hostnames :
          HostDropped(n)
            => \E h \in Handlers :
                 /\ hpc[h] = "dump" /\ hpc'[h] = "finish"
                 /\ hreq[h].op = "remove" /\ hreq[h].hostname = n]_vars

\* The job that inserted a new host has FAILED at the playbook and the
\* host is in the inventory, in kube_node, with the job's address.
C22_Witness ==
  \E k \in DOMAIN jobs :
    /\ jobs[k].operation = "add" /\ jobs[k].status = FAILED
    /\ jobs[k].message \in ProvisionerFailureMessages
    /\ jobs[k].hostname \notin DOMAIN InitialInventory.hosts
    /\ InInventoryAsWorker(jobs[k].hostname, jobs[k].ip)
    /\ file_state = "complete"

\* ------------------------------------------------------------------ C23
\* C23: at the step that starts ansible-playbook for a job, and at the
\* step that sets the job COMPLETED, the complete inventory file holds the
\* job's host with the job's address, in kube_node.
C23_HostPresentWhenProvisioned ==
  [][(\/ wpc = "settle" /\ wpc' = "playbook"
      \/ wpc = "verify" /\ wpc' = "get")
        => /\ file_state = "complete"
           /\ InInventoryAsWorker(wjob.hostname, wjob.ip)]_vars

\* ------------------------------------------------------------------ C24
\* C24: every member of kube_control_plane keeps the address and the
\* kube_node and etcd memberships it started with.
C24_ControlPlaneEntryKept ==
  \A n \in inventory_file.kube_control_plane :
    /\ n \in DOMAIN inventory_file.hosts
    /\ inventory_file.hosts[n] = InitialInventory.hosts[n]
    /\ n \in inventory_file.kube_node <=> n \in InitialInventory.kube_node
    /\ n \in inventory_file.etcd <=> n \in InitialInventory.etcd

====
